---------------------------- MODULE Spec2Model ----------------------------
(***************************************************************************)
(* A model of the Axiom Hive trading engine: the circuit breaker and the   *)
(* execution safety gate, the L0 invariant contract and the SMT verifier,  *)
(* the C=0 attestation, the proposer-verifier pipeline and the portfolio   *)
(* manager.                                                                *)
(*                                                                         *)
(* main.rs constructs the components and never wires them together, so     *)
(* each component is a state machine of its own, driven through its public *)
(* operations; every component has its own specification (SpecBreaker,     *)
(* SpecVerifier, ...) and Spec is their interleaving.                      *)
(*                                                                         *)
(* rust_decimal::Decimal values are modelled as exact rationals <<n, d>>   *)
(* with d > 0 in lowest terms; a Decimal division by zero panics, which    *)
(* the operations that divide model as the outcome "Panic".                *)
(***************************************************************************)
EXTENDS Integers, Sequences, FiniteSets, TLC

VARIABLES
    cb_state,      \* CircuitBreaker.state
    cb_history,    \* CircuitBreaker.daily_pnl_history: <<time, equity>> entries
    cb_now,        \* the wall clock (Utc::now()), in hours
    cb_last        \* the last call on the breaker or the executor, what it
                   \* returned and its argument: <<"check", state, portfolio>>,
                   \* <<"execute_order", r, order>>; <<"check", "Panic", p>>:
                   \* the call unwound

VARIABLES
    vf_in,         \* the verifier's inputs: [signal, portfolio, solver]
    vf_l0,         \* what L0InvariantContract::verify_signal returned on them
    vf_ret         \* what Verifier::verify_signal returned on them

VARIABLES
    at_order,      \* the VerifiedOrder that is signed
    at_sig,        \* <<the CZeroSignature that sign returned>>, <<>> before
    at_presented,  \* <<the VerifiedOrder handed to verify>>, <<>> before
    at_ret,        \* what verify returned
    at_exec        \* what execute_order returned on the order

VARIABLES
    pl_feed,       \* the inputs fed to generate_signal so far, in order
    pl_runs        \* two runs of the pipeline on the feed: for each, the
                   \* number of inputs taken, the proposer's counters, the
                   \* last proposal and the outputs of generate_signal

VARIABLES
    pm_self,       \* the PortfolioManager: [portfolio, position_map]
    pm_calls       \* the calls made on it, oldest first

VARIABLES
    bk_sequence,   \* OrderBookBuilder.sequence
    bk_book,       \* <<the OrderBook the caller holds>>, <<>> before the first
    bk_last        \* the last call on the builder and what it returned

cb_vars == <<cb_state, cb_history, cb_now, cb_last>>
vf_vars == <<vf_in, vf_l0, vf_ret>>
at_vars == <<at_order, at_sig, at_presented, at_ret, at_exec>>
pl_vars == <<pl_feed, pl_runs>>
pm_vars == <<pm_self, pm_calls>>
bk_vars == <<bk_sequence, bk_book, bk_last>>
vars == <<cb_vars, vf_vars, at_vars, pl_vars, pm_vars, bk_vars>>
\* What a component's operations leave alone: the other components.
cb_others == <<vf_vars, at_vars, pl_vars, pm_vars, bk_vars>>
vf_others == <<cb_vars, at_vars, pl_vars, pm_vars, bk_vars>>
at_others == <<cb_vars, vf_vars, pl_vars, pm_vars, bk_vars>>
pl_others == <<cb_vars, vf_vars, at_vars, pm_vars, bk_vars>>
pm_others == <<cb_vars, vf_vars, at_vars, pl_vars, bk_vars>>
bk_others == <<cb_vars, vf_vars, at_vars, pl_vars, pm_vars>>

----------------------------------------------------------------------------
(* Decimal arithmetic on rationals <<n, d>>.  A product whose denominator  *)
(* is beyond the integers of the checker (the square of a leverage of      *)
(* 0.000001, which a Decimal holds exactly) is <<n, d, e>>, the rational   *)
(* n / (d * 10^e); such a value is only added to zero, divided and         *)
(* compared with a power of ten.                                           *)

RECURSIVE GCD(_, _)
GCD(a, b) == IF b = 0 THEN a ELSE GCD(b, a % b)

AbsInt(n) == IF n < 0 THEN -n ELSE n

Norm(n, d) ==
    LET s == IF d < 0 THEN -1 ELSE 1
        g == GCD(AbsInt(n), AbsInt(d))
    IN  <<(s * n) \div g, (s * d) \div g>>

Dec(n) == <<n, 1>>
ZERO == Dec(0)
ONE == Dec(1)

\* The powers of ten in a denominator, and what they leave of it.
RECURSIVE Exp10(_)
Exp10(d) == IF d % 10 = 0 THEN 1 + Exp10(d \div 10) ELSE 0

RECURSIVE Strip10(_)
Strip10(d) == IF d % 10 = 0 THEN Strip10(d \div 10) ELSE d

Scale10(a) == IF Len(a) = 3 THEN a[3] ELSE 0

Add(a, b) ==
    CASE Len(a) = 2 /\ Len(b) = 2 ->
             Norm(a[1] * b[2] + b[1] * a[2], a[2] * b[2])
      [] Len(a) = 3 /\ b = ZERO -> a
      [] Len(b) = 3 /\ a = ZERO -> b
Sub(a, b) == Norm(a[1] * b[2] - b[1] * a[2], a[2] * b[2])
Mul(a, b) ==
    IF Len(a) = 2 /\ Len(b) = 2 /\ a[2] <= 2147483647 \div b[2]
    THEN Norm(a[1] * b[1], a[2] * b[2])
    ELSE <<a[1] * b[1], Strip10(a[2]) * Strip10(b[2]),
           Exp10(a[2]) + Exp10(b[2]) + Scale10(a) + Scale10(b)>>
\* Only applied where the divisor is known to be non-zero: the callers model
\* the panic of Decimal's Div on a zero divisor.
Div(a, b) ==
    CASE Len(a) = 2 /\ Len(b) = 2 -> Norm(a[1] * b[2], a[2] * b[1])
      [] Len(a) = 3 /\ Len(b) = 2 ->
             Norm(a[1] * b[2], a[2] * b[1]) \o <<a[3]>>
Abs(a) == <<AbsInt(a[1]), a[2]>>
Neg(a) == <<-a[1], a[2]>>

Lt(a, b) == a[1] * b[2] < b[1] * a[2]
Le(a, b) == a[1] * b[2] <= b[1] * a[2]
Gt(a, b) == Lt(b, a)
Ge(a, b) == Le(b, a)

\* floor(n / 10^k), by k divisions: 10^12 itself is not a TLC integer.
RECURSIVE DivPow10(_, _)
DivPow10(n, k) == IF k = 0 THEN n ELSE DivPow10(n \div 10, k - 1)

\* a > 10^-k:  n/d > 10^-k  <=>  n * 10^k > d  <=>  n > floor(d / 10^k).
\* n/(d * 10^e) > 10^-k, for e <= k:  n > floor(d / 10^(k - e)).
GtPow10Neg(a, k) ==
    CASE Len(a) = 2 -> a[1] > DivPow10(a[2], k)
      [] Len(a) = 3 /\ a[3] <= k -> a[1] > DivPow10(a[2], k - a[3])

----------------------------------------------------------------------------
(* constants.rs                                                            *)

MAX_POSITION_SIZE_BTC == 10
MAX_POSITION_SIZE_ETH == 100
MAX_POSITION_SIZE_SOL == 1000
MAX_ORDER_SIZE_BTC == 1
MAX_ORDER_SIZE_ETH == 10
MAX_ORDER_SIZE_SOL == 100
MAX_LEVERAGE == 3
MIN_RISK_BUDGET == <<1, 400>>        \* dec!(0.0025)
MAX_RISK_BUDGET == <<1, 100>>        \* dec!(0.01)
MAX_DAILY_DRAWDOWN == <<3, 100>>     \* dec!(0.03)
\* DELTA_U_MAX_SQ = dec!(0.000000000001) = 10^-DELTA_U_MAX_SQ_SCALE
DELTA_U_MAX_SQ_SCALE == 12
GtDELTA_U_MAX_SQ(a) == GtPow10Neg(a, DELTA_U_MAX_SQ_SCALE)

BTC == "BTC/USD"
ETH == "ETH/USD"
SOL == "SOL/USD"
DOGE == "DOGE/USD"                   \* a symbol outside SUPPORTED_PAIRS
SUPPORTED_PAIRS == {BTC, ETH, SOL}

----------------------------------------------------------------------------
(* hamiltonian.rs                                                          *)

\* portfolio.positions.iter().filter(|p| p.side == side).count()
SideCount(positions, side) == Cardinality({p \in positions : p.side = side})

MaxInt(a, b) == IF a >= b THEN a ELSE b

\* A slip: concentrated positions carry no penalty.
calculate_correlation_penalty_Zero(portfolio) == ZERO

calculate_correlation_penalty(portfolio) ==
    IF portfolio.positions = {} THEN ZERO
    ELSE LET long_count == SideCount(portfolio.positions, "Buy")
             short_count == SideCount(portfolio.positions, "Sell")
             concentration == Dec(MaxInt(long_count, short_count))
         IN  Mul(concentration, Div(Dec(1), Dec(10)))

calculate_hamiltonian_energy(portfolio) ==
    LET leverage_term == Mul(portfolio.leverage, portfolio.leverage)
        correlation_penalty == calculate_correlation_penalty(portfolio)
    IN  Div(Add(leverage_term, correlation_penalty), Dec(2))

----------------------------------------------------------------------------
(* Portfolios handed to the breaker and to the verifier: both take any     *)
(* &Portfolio, a struct of public fields.                                  *)

Pos(symbol, side, quantity, price) ==
    [symbol |-> symbol, side |-> side, quantity |-> quantity,
     entry_price |-> price, current_price |-> price,
     unrealized_pnl |-> ZERO, realized_pnl |-> ZERO]

PortfolioOf(equity, positions, leverage, energy) ==
    [equity |-> equity, positions |-> positions, leverage |-> leverage,
     energy |-> energy]

BreakerEquities == {Dec(0), Dec(9690), Dec(9700), Dec(10000)}
BreakerLeverages == {ZERO, Dec(3), <<7, 2>>}
\* A leverage whose square is DELTA_U_MAX_SQ.
TINY_LEVERAGE == <<1, 1000000>>
BreakerPositions == {{}, {Pos(BTC, "Buy", ONE, Dec(100))}}

BreakerPortfolios ==
    {PortfolioOf(e, ps, l, ZERO) :
        e \in BreakerEquities, ps \in BreakerPositions, l \in BreakerLeverages}
    \cup {PortfolioOf(e, {}, TINY_LEVERAGE, ZERO) : e \in BreakerEquities}

\* The portfolios whose snapshots are recorded: record_snapshot reads the
\* equity only.
BreakerSnapshots == {PortfolioOf(e, {}, ZERO, ZERO) : e \in {ZERO, Dec(10000)}}

----------------------------------------------------------------------------
(* safety.rs, executor.rs                                                  *)

NoPrice == <<"None">>
SomePrice(p) == <<"Some", p>>

check_order_size(signal) ==
    IF signal.symbol \notin SUPPORTED_PAIRS THEN "UnsupportedSymbol"
    ELSE LET max_size == CASE signal.symbol = BTC -> Dec(MAX_ORDER_SIZE_BTC)
                           [] signal.symbol = ETH -> Dec(MAX_ORDER_SIZE_ETH)
                           [] signal.symbol = SOL -> Dec(MAX_ORDER_SIZE_SOL)
         IN  IF Gt(signal.quantity, max_size) THEN "OrderSizeExceeded"
             ELSE IF Le(signal.quantity, ZERO) THEN "InvalidQuantity"
             ELSE "Ok"

check_price(signal) ==
    IF signal.limit_price # NoPrice /\ Le(signal.limit_price[2], ZERO)
    THEN "InvalidPrice"
    ELSE "Ok"

\* A slip: the price check left out.
check_order_NoPrice(order) ==
    IF check_order_size(order.signal) # "Ok" THEN check_order_size(order.signal)
    ELSE "Ok"

\* SafetyChecker::check_order: the size check, then the price check.
check_order(order) ==
    IF check_order_size(order.signal) # "Ok" THEN check_order_size(order.signal)
    ELSE IF check_price(order.signal) # "Ok" THEN check_price(order.signal)
    ELSE "Ok"

\* OrderExecutor::execute_order: "Submitted", or the SafetyCheck error.
execute_order(order) ==
    IF check_order(order) # "Ok" THEN <<"SafetyCheck", check_order(order)>>
    ELSE <<"Submitted">>

\* The orders handed to the executor: VerifiedOrder is a struct of public
\* fields; the gate reads symbol, quantity and limit_price only.
GateSignals ==
    {[symbol |-> s, quantity |-> q, limit_price |-> lp] :
        s \in {BTC, ETH, DOGE},
        q \in {ZERO, <<1, 2>>, Dec(2)},
        lp \in {NoPrice, SomePrice(Dec(-1)), SomePrice(Dec(100))}}

GateOrders == {[signal |-> sig] : sig \in GateSignals}

----------------------------------------------------------------------------
(* circuit_breaker.rs                                                      *)

MaxClock == 36
MaxHistory == 2
HOURS_RETAINED == 24

Panicked == cb_last[1] = "check" /\ cb_last[2] = "Panic"

BreakerInit ==
    /\ cb_state = "Normal"
    /\ cb_history = <<>>
    /\ cb_now = 0
    /\ cb_last = <<"new">>

\* calculate_daily_drawdown: "Panic" when the oldest snapshot's equity is 0.
calculate_daily_drawdown(history, portfolio) ==
    IF history = <<>> THEN <<"Ok", ZERO>>
    ELSE LET start_equity == history[1][2]
         IN  IF start_equity = ZERO THEN <<"Panic">>
             ELSE <<"Ok", Div(Sub(portfolio.equity, start_equity), start_equity)>>

\* A slip: the energy is never found above the threshold.
check_NoWarning(history, portfolio) ==
    LET daily_drawdown == calculate_daily_drawdown(history, portfolio)
    IN  IF daily_drawdown[1] = "Panic" THEN "Panic"
        ELSE IF Gt(Abs(daily_drawdown[2]), MAX_DAILY_DRAWDOWN) THEN "Tripped"
        ELSE IF Gt(portfolio.leverage, Dec(MAX_LEVERAGE)) THEN "Tripped"
        ELSE "Normal"

\* The state check() leaves and returns, from the history and the portfolio.
check(history, portfolio) ==
    LET daily_drawdown == calculate_daily_drawdown(history, portfolio)
    IN  IF daily_drawdown[1] = "Panic" THEN "Panic"
        ELSE IF Gt(Abs(daily_drawdown[2]), MAX_DAILY_DRAWDOWN) THEN "Tripped"
        ELSE IF Gt(portfolio.leverage, Dec(MAX_LEVERAGE)) THEN "Tripped"
        ELSE IF GtDELTA_U_MAX_SQ(calculate_hamiltonian_energy(portfolio))
             THEN "Warning"
        ELSE "Normal"

Check(portfolio) ==
    /\ ~Panicked
    /\ LET r == check(cb_history, portfolio)
       IN  /\ cb_last' = <<"check", r, portfolio, cb_state>>
           /\ cb_state' = IF r = "Panic" THEN cb_state ELSE r
    /\ UNCHANGED <<cb_history, cb_now, cb_others>>

\* The entries record_snapshot keeps: those not older than 24 hours.
RECURSIVE Purge(_, _)
Purge(history, cutoff) ==
    IF history # <<>> /\ history[1][1] < cutoff
    THEN Purge(Tail(history), cutoff)
    ELSE history

record_snapshot(history, now, portfolio) ==
    Purge(Append(history, <<now, portfolio.equity>>), now - HOURS_RETAINED)

RecordSnapshot(portfolio) ==
    /\ ~Panicked
    /\ Len(record_snapshot(cb_history, cb_now, portfolio)) <= MaxHistory
    /\ cb_history' = record_snapshot(cb_history, cb_now, portfolio)
    /\ cb_last' = <<"record_snapshot">>
    /\ UNCHANGED <<cb_state, cb_now, cb_others>>

Reset ==
    /\ ~Panicked
    /\ cb_state' = "Normal"
    /\ cb_history' = <<>>
    /\ cb_last' = <<"reset">>
    /\ UNCHANGED <<cb_now, cb_others>>

\* Time passes, twelve hours at a time.
AdvanceClock ==
    /\ ~Panicked
    /\ cb_now + 12 <= MaxClock
    /\ cb_now' = cb_now + 12
    /\ UNCHANGED <<cb_state, cb_history, cb_last, cb_others>>

ExecuteOrder(order) ==
    /\ ~Panicked
    /\ cb_last' = <<"execute_order", execute_order(order), order>>
    /\ UNCHANGED <<cb_state, cb_history, cb_now, cb_others>>

BreakerNext ==
    \/ \E p \in BreakerPortfolios : Check(p)
    \/ \E p \in BreakerSnapshots : RecordSnapshot(p)
    \/ Reset
    \/ AdvanceClock
    \/ \E o \in GateOrders : ExecuteOrder(o)

----------------------------------------------------------------------------
(* invariants.rs: the L0 invariant contract.  A result is <<"Ok">>,        *)
(* <<"Err", violation>> or <<"Panic">>; a violation is its name followed   *)
(* by its fields.                                                          *)

Ok == <<"Ok">>
Err(violation) == <<"Err", violation>>
Panic == <<"Panic">>

check_position_size(symbol, quantity) ==
    IF symbol \notin SUPPORTED_PAIRS THEN Err(<<"UnsupportedSymbol">>)
    ELSE LET max_size == CASE symbol = BTC -> Dec(MAX_POSITION_SIZE_BTC)
                           [] symbol = ETH -> Dec(MAX_POSITION_SIZE_ETH)
                           [] symbol = SOL -> Dec(MAX_POSITION_SIZE_SOL)
         IN  IF Gt(quantity, max_size)
             THEN Err(<<"PositionSizeExceeded", quantity, max_size>>)
             ELSE Ok

\* A slip: the leverage is never found excessive.
check_leverage_Off(portfolio) == Ok

check_leverage(portfolio) ==
    IF Gt(portfolio.leverage, Dec(MAX_LEVERAGE))
    THEN Err(<<"LeverageExceeded", portfolio.leverage, Dec(MAX_LEVERAGE)>>)
    ELSE Ok

\* signal.quantity * signal.limit_price.unwrap_or(Decimal::ZERO)
position_value(signal) ==
    Mul(signal.quantity,
        IF signal.limit_price = NoPrice THEN ZERO ELSE signal.limit_price[2])

\* A slip: the lower bound of the risk budget left out.
check_risk_budget_NoFloor(signal, portfolio) ==
    IF portfolio.equity = ZERO THEN Panic
    ELSE LET risk_fraction == Div(position_value(signal), portfolio.equity)
         IN  IF Gt(risk_fraction, MAX_RISK_BUDGET)
             THEN Err(<<"RiskBudgetExceeded", risk_fraction, MAX_RISK_BUDGET>>)
             ELSE Ok

check_risk_budget(signal, portfolio) ==
    IF portfolio.equity = ZERO THEN Panic
    ELSE LET risk_fraction == Div(position_value(signal), portfolio.equity)
         IN  IF Lt(risk_fraction, MIN_RISK_BUDGET)
             THEN Err(<<"RiskBudgetTooSmall", risk_fraction, MIN_RISK_BUDGET>>)
             ELSE IF Gt(risk_fraction, MAX_RISK_BUDGET)
             THEN Err(<<"RiskBudgetExceeded", risk_fraction, MAX_RISK_BUDGET>>)
             ELSE Ok

verify_hamiltonian_energy(portfolio) ==
    IF GtDELTA_U_MAX_SQ(portfolio.energy)
    THEN Err(<<"EnergyDivergence", portfolio.energy>>)
    ELSE Ok

\* A slip in the order of the checks: the leverage before the position size.
L0_verify_signal_LeverageFirst(signal, portfolio) ==
    IF Lt(signal.contradiction_score, ZERO) THEN Err(<<"NegativeContradiction">>)
    ELSE IF check_leverage(portfolio) # Ok THEN check_leverage(portfolio)
    ELSE IF check_position_size(signal.symbol, signal.quantity) # Ok
         THEN check_position_size(signal.symbol, signal.quantity)
    ELSE IF check_risk_budget(signal, portfolio) # Ok
         THEN check_risk_budget(signal, portfolio)
    ELSE IF GtDELTA_U_MAX_SQ(signal.entropy_count)
         THEN Err(<<"ExcessiveEntropy">>)
    ELSE IF signal.limit_price # NoPrice /\ Le(signal.limit_price[2], ZERO)
         THEN Err(<<"InvalidPrice">>)
    ELSE Ok

L0_verify_signal(signal, portfolio) ==
    IF Lt(signal.contradiction_score, ZERO) THEN Err(<<"NegativeContradiction">>)
    ELSE IF check_position_size(signal.symbol, signal.quantity) # Ok
         THEN check_position_size(signal.symbol, signal.quantity)
    ELSE IF check_leverage(portfolio) # Ok THEN check_leverage(portfolio)
    ELSE IF check_risk_budget(signal, portfolio) # Ok
         THEN check_risk_budget(signal, portfolio)
    ELSE IF GtDELTA_U_MAX_SQ(signal.entropy_count)
         THEN Err(<<"ExcessiveEntropy">>)
    ELSE IF signal.limit_price # NoPrice /\ Le(signal.limit_price[2], ZERO)
         THEN Err(<<"InvalidPrice">>)
    ELSE Ok

----------------------------------------------------------------------------
(* verifier.rs                                                             *)

\* (x * Decimal::from(1_000_000)).to_i64(): the integer part, truncated
\* toward zero (the values of the model are far from i64's range, where
\* unwrap_or(0) would apply).
Scaled(x) ==
    LET y == Mul(x, Dec(1000000))
    IN  IF y[1] >= 0 THEN y[1] \div y[2] ELSE -((-y[1]) \div y[2])

\* solver.check() on the two asserted constraints, which are ground: the
\* solver decides them, unless it gives up ("Unknown").
SolverCheck(solver, signal, portfolio) ==
    LET quantity == Scaled(signal.quantity)
        max_quantity == Scaled(Dec(MAX_POSITION_SIZE_BTC))
        leverage == Scaled(portfolio.leverage)
        max_leverage == Scaled(Dec(MAX_LEVERAGE))
    IN  IF solver = "Unknown" THEN "Unknown"
        ELSE IF quantity <= max_quantity /\ leverage <= max_leverage THEN "Sat"
        ELSE "Unsat"

AXIOMS_SATISFIED ==
    <<"PositionSizeLimit", "LeverageLimit", "RiskBudget", "EnergyConstraint">>

\* A fail-open slip: an Unknown answer handled like Sat.
generate_proof_FailOpen(signal, portfolio, solver) ==
    LET r == SolverCheck(solver, signal, portfolio)
    IN  CASE r \in {"Sat", "Unknown"} ->
               <<"Ok", [satisfiable |-> TRUE, model |-> <<>>,
                        axioms_satisfied |-> AXIOMS_SATISFIED]>>
          [] r = "Unsat" ->
               Err(<<"LeverageExceeded", portfolio.leverage, Dec(MAX_LEVERAGE)>>)

\* generate_proof: the constraints declare no constant, so the model map
\* of a Sat answer is empty.
generate_proof(signal, portfolio, solver) ==
    LET r == SolverCheck(solver, signal, portfolio)
    IN  CASE r = "Sat" ->
               <<"Ok", [satisfiable |-> TRUE, model |-> <<>>,
                        axioms_satisfied |-> AXIOMS_SATISFIED]>>
          [] r = "Unsat" ->
               Err(<<"LeverageExceeded", portfolio.leverage, Dec(MAX_LEVERAGE)>>)
          [] r = "Unknown" -> Err(<<"ExcessiveEntropy">>)

\* format!("C=0:{}", hex::encode(proof.model.get("hash").unwrap_or(""))):
\* the model map has no "hash" entry.
proof_signature_of(proof) == "C=0:"

\* A slip: step 2, the Hamiltonian energy check, left out.
Verifier_verify_signal_NoEnergy(signal, portfolio, solver, now) ==
    IF L0_verify_signal(signal, portfolio) # Ok
    THEN L0_verify_signal(signal, portfolio)
    ELSE IF GtDELTA_U_MAX_SQ(signal.entropy_count)
    THEN Err(<<"ExcessiveEntropy">>)
    ELSE LET proof == generate_proof(signal, portfolio, solver)
         IN  IF proof[1] # "Ok" THEN proof
             ELSE <<"Ok", [signal |-> signal,
                           proof_signature |-> proof_signature_of(proof[2]),
                           proof |-> proof[2],
                           verified_at |-> now]>>

\* Verifier::verify_signal, with the solver's disposition and the wall clock
\* it reads as inputs.
Verifier_verify_signal(signal, portfolio, solver, now) ==
    IF L0_verify_signal(signal, portfolio) # Ok
    THEN L0_verify_signal(signal, portfolio)
    ELSE IF verify_hamiltonian_energy(portfolio) # Ok
    THEN verify_hamiltonian_energy(portfolio)
    ELSE IF GtDELTA_U_MAX_SQ(signal.entropy_count)
    THEN Err(<<"ExcessiveEntropy">>)
    ELSE LET proof == generate_proof(signal, portfolio, solver)
         IN  IF proof[1] # "Ok" THEN proof
             ELSE <<"Ok", [signal |-> signal,
                           proof_signature |-> proof_signature_of(proof[2]),
                           proof |-> proof[2],
                           verified_at |-> now]>>

\* The signals and portfolios the verifier is called with: TradeSignal and
\* Portfolio are structs of public fields, so any values can arrive.
SignalOf(symbol, side, quantity, limit_price, contradiction, entropy, ts) ==
    [symbol |-> symbol, side |-> side, quantity |-> quantity,
     limit_price |-> limit_price, timestamp |-> ts,
     contradiction_score |-> contradiction, entropy_count |-> entropy]

VerifierSymbols == {BTC, ETH, SOL, DOGE}
VerifierQuantities == {Dec(-1), <<1, 1000>>, <<1, 10>>, Dec(11), Dec(50)}
VerifierPrices ==
    {NoPrice, SomePrice(Dec(-50)), SomePrice(Dec(1)), SomePrice(Dec(50)),
     SomePrice(Dec(50000))}
VerifierContradictions == {<<-1, 100>>, <<3, 50>>}
VerifierEntropies == {ZERO, <<1, 1000>>}
VerifierSignals ==
    {SignalOf(s, "Buy", q, lp, c, e, 0) :
        s \in VerifierSymbols, q \in VerifierQuantities, lp \in VerifierPrices,
        c \in VerifierContradictions, e \in VerifierEntropies}
VerifierPortfolios ==
    {PortfolioOf(e, {}, l, en) :
        e \in {Dec(-10000), ZERO, Dec(10000)},
        l \in {ZERO, Dec(3), <<7, 2>>},
        en \in {ZERO, <<1, 20>>}}
VerifierClock == {1000, 1500}

VerifierInit ==
    /\ vf_in \in [signal : VerifierSignals, portfolio : VerifierPortfolios,
                  solver : {"Decides", "Unknown"}]
    /\ vf_l0 = <<"NotCalled">>
    /\ vf_ret = <<"NotCalled">>

L0VerifySignal ==
    /\ vf_l0 = <<"NotCalled">>
    /\ vf_l0' = L0_verify_signal(vf_in.signal, vf_in.portfolio)
    /\ UNCHANGED <<vf_in, vf_ret, vf_others>>

VerifySignal(now) ==
    /\ vf_ret = <<"NotCalled">>
    /\ vf_ret' = Verifier_verify_signal(vf_in.signal, vf_in.portfolio,
                                        vf_in.solver, now)
    /\ UNCHANGED <<vf_in, vf_l0, vf_others>>

VerifierNext ==
    \/ L0VerifySignal
    \/ \E now \in VerifierClock : VerifySignal(now)

\* The verifier before any call.
VerifierIdle ==
    /\ vf_in = <<"NotCalled">>
    /\ vf_l0 = <<"NotCalled">>
    /\ vf_ret = <<"NotCalled">>

----------------------------------------------------------------------------
(* signature.rs: the C=0 attestation.                                      *)

\* Sha3_256 over serde_json::to_string(order): distinct orders serialize to
\* distinct texts and the digest is taken as collision-free, so the digest
\* of an order stands for the order.
order_hash_of(order) == <<"sha3", order>>

\* DateTime::timestamp(): the whole seconds of an instant, here in ms.
timestamp_of(ms) == ms \div 1000

\* format!("{}:{}:{}", order_hash, order.proof_signature,
\*         order.verified_at.timestamp())
message_of(order_hash, order) ==
    <<order_hash, order.proof_signature, timestamp_of(order.verified_at)>>

\* Ed25519, taken as unforgeable: a signature verifies under a key exactly
\* for the message it was made on, with that key's signing key.
verifying_key_of(signing_key) == <<"pub", signing_key>>
Ed25519Sign(signing_key, message) == <<"sig", signing_key, message>>
Ed25519Verify(verifying_key, message, signature) ==
    /\ signature[3] = message
    /\ verifying_key_of(signature[2]) = verifying_key

sign(order, signing_key, now) ==
    LET order_hash == order_hash_of(order)
    IN  [signature |-> Ed25519Sign(signing_key, message_of(order_hash, order)),
         verifying_key |-> verifying_key_of(signing_key),
         order_hash |-> order_hash,
         timestamp |-> now]

\* verify: the message is rebuilt from the STORED order_hash.
verify(self, order) ==
    IF self.verifying_key[1] # "pub" THEN Err(<<"InvalidKey">>)
    ELSE IF self.signature[1] # "sig" THEN Err(<<"InvalidSignature">>)
    ELSE IF Ed25519Verify(self.verifying_key,
                          message_of(self.order_hash, order), self.signature)
    THEN Ok
    ELSE Err(<<"VerificationFailed">>)

\* The orders that are signed and the orders presented for verification: a
\* VerifiedOrder is a struct of public fields.
AttestSignals ==
    {SignalOf(BTC, "Buy", q, SomePrice(Dec(2000)), <<3, 50>>, ZERO, 0) :
        q \in {<<1, 10>>, Dec(5)}}
AttestProofs ==
    {[satisfiable |-> b, model |-> <<>>, axioms_satisfied |-> AXIOMS_SATISFIED] :
        b \in BOOLEAN}
AttestOrders ==
    [signal : AttestSignals, proof_signature : {"C=0:", "C=0:00"},
     proof : AttestProofs, verified_at : {1000, 1500, 2000}]
AttestKeys == {"k1", "k2"}
AttestClock == {2000, 2500}

AttestIdle ==
    /\ at_order = <<"None">>
    /\ at_sig = <<>>
    /\ at_presented = <<>>
    /\ at_ret = <<"NotCalled">>
    /\ at_exec = <<"NotCalled">>

AttestInit ==
    /\ at_order \in AttestOrders
    /\ at_sig = <<>>
    /\ at_presented = <<>>
    /\ at_ret = <<"NotCalled">>
    /\ at_exec = <<"NotCalled">>

Sign(signing_key, now) ==
    /\ at_sig = <<>>
    /\ at_sig' = <<sign(at_order, signing_key, now)>>
    /\ UNCHANGED <<at_order, at_presented, at_ret, at_exec, at_others>>

Verify(order) ==
    /\ at_sig # <<>>
    /\ at_ret = <<"NotCalled">>
    /\ at_exec = <<"NotCalled">>
    /\ at_presented' = <<order>>
    /\ at_ret' = verify(at_sig[1], order)
    /\ UNCHANGED <<at_order, at_sig, at_exec, at_others>>

\* The order goes to the executor: the order presented for verification
\* or, when none was, the original one, signed or not.  execute_order takes
\* the VerifiedOrder alone.
Submit ==
    /\ at_exec = <<"NotCalled">>
    /\ at_exec' = execute_order(IF at_presented = <<>> THEN at_order
                                ELSE at_presented[1])
    /\ UNCHANGED <<at_order, at_sig, at_presented, at_ret, at_others>>

AttestNext ==
    \/ \E k \in AttestKeys, now \in AttestClock : Sign(k, now)
    \/ \E order \in AttestOrders : Verify(order)
    \/ Submit

----------------------------------------------------------------------------
(* normalization.rs, features.rs: the order-book features.  An Option of a *)
(* Decimal is NoPrice or SomePrice(x).                                     *)

Level(price, quantity) == [price |-> price, quantity |-> quantity]
BookOf(bids, asks) == [bids |-> bids, asks |-> asks]

\* iter().map(|level| level.quantity).sum()
RECURSIVE SumQuantity(_)
SumQuantity(levels) ==
    IF levels = <<>> THEN ZERO
    ELSE Add(Head(levels).quantity, SumQuantity(Tail(levels)))

\* iter().map(|level| level.price * level.quantity).sum()
RECURSIVE SumNotional(_)
SumNotional(levels) ==
    IF levels = <<>> THEN ZERO
    ELSE Add(Mul(Head(levels).price, Head(levels).quantity),
             SumNotional(Tail(levels)))

\* iter().take(n)
Take(levels, n) == SubSeq(levels, 1, IF Len(levels) < n THEN Len(levels) ELSE n)

calculate_depth_imbalance(book) ==
    LET bid_volume == SumQuantity(book.bids)
        ask_volume == SumQuantity(book.asks)
    IN  IF Add(bid_volume, ask_volume) = ZERO THEN ZERO
        ELSE Div(Sub(bid_volume, ask_volume), Add(bid_volume, ask_volume))

calculate_mid_price(book) ==
    IF book.bids = <<>> \/ book.asks = <<>> THEN NoPrice
    ELSE SomePrice(Div(Add(book.bids[1].price, book.asks[1].price), Dec(2)))

calculate_spread(book) ==
    IF book.bids = <<>> \/ book.asks = <<>> THEN NoPrice
    ELSE SomePrice(Sub(book.asks[1].price, book.bids[1].price))

calculate_spread_pct(book) ==
    LET spread == calculate_spread(book)
        mid == calculate_mid_price(book)
    IN  IF spread = NoPrice \/ mid = NoPrice THEN NoPrice
        ELSE IF mid[2] = ZERO THEN NoPrice
        ELSE SomePrice(Mul(Div(spread[2], mid[2]), Dec(100)))

TOP_LEVELS == 10

calculate_cex_liquidity(book) ==
    LET bid_volume == SumNotional(Take(book.bids, TOP_LEVELS))
        ask_volume == SumNotional(Take(book.asks, TOP_LEVELS))
    IN  Div(Add(bid_volume, ask_volume), Dec(2))

calculate_contradiction_score(book, onchain_liquidity) ==
    LET cex_liquidity == calculate_cex_liquidity(book)
    IN  IF cex_liquidity = ZERO THEN ZERO
        ELSE Div(Abs(Sub(onchain_liquidity, cex_liquidity)), cex_liquidity)

\* A slip: a book is never found disordered.
calculate_entropy_Zero(book) == ZERO

calculate_entropy(book) ==
    LET sp == calculate_spread_pct(book)
        spread_pct == IF sp = NoPrice THEN ZERO ELSE sp[2]
        imbalance == Abs(calculate_depth_imbalance(book))
    IN  Mul(spread_pct, Add(ONE, imbalance))

----------------------------------------------------------------------------
(* proposer.rs, signals.rs: the proposer-verifier pipeline.  An Option of  *)
(* a signal or of an order is None or Some(x).                             *)

None == <<"None">>
Some(x) == <<"Some", x>>

CONTRADICTION_THRESHOLD == <<1, 20>>
SPREAD_THRESHOLD == <<1, 1000>>
BASE_QUANTITY == <<1, 10>>

\* Proposer::propose_trade, after its total_proposals += 1, with the wall
\* clock it reads as an input.  The venue and the order type are copied into
\* the signal and read by nothing; they are left out.
propose_trade(symbol, book, portfolio, now) ==
    LET contradiction_score == calculate_contradiction_score(book, ZERO)
        entropy == calculate_entropy(book)
        mid_price == calculate_mid_price(book)
        spread == calculate_spread(book)
        spread_pct == calculate_spread_pct(book)
    IN  IF mid_price = NoPrice \/ spread = NoPrice \/ spread_pct = NoPrice
        THEN None
        ELSE IF /\ Gt(contradiction_score, CONTRADICTION_THRESHOLD)
                /\ Gt(spread_pct[2], SPREAD_THRESHOLD)
        THEN LET imbalance == calculate_depth_imbalance(book)
                 side == IF Gt(imbalance, ZERO) THEN "Buy" ELSE "Sell"
             IN  Some(SignalOf(symbol, side, BASE_QUANTITY,
                               SomePrice(mid_price[2]), contradiction_score,
                               entropy, now))
        ELSE None

\* Proposer::new inside SignalGenerator::new, with the outputs of the run.
NewRun ==
    [pos |-> 0, unwound |-> FALSE, total_proposals |-> 0,
     hallucination_count |-> 0, proposal |-> None, outputs |-> <<>>]

hallucination_rate(proposer) ==
    IF proposer.total_proposals = 0 THEN ZERO
    ELSE Norm(proposer.hallucination_count, proposer.total_proposals)

\* A slip: a call that finds no opportunity recorded as a rejection.
generate_signal_CountsNone(run, in, now_p, now_v) ==
    LET counted == [run EXCEPT !.pos = @ + 1, !.total_proposals = @ + 1]
        signal == propose_trade(in.symbol, in.book, in.portfolio, now_p)
        proposed == [counted EXCEPT !.proposal = signal]
    IN  IF signal = None
        THEN [proposed EXCEPT !.hallucination_count = @ + 1,
                              !.outputs = Append(@, None)]
        ELSE LET r == Verifier_verify_signal(signal[2], in.portfolio,
                                             in.solver, now_v)
             IN  IF r = Panic THEN [proposed EXCEPT !.unwound = TRUE]
                 ELSE IF r[1] = "Ok"
                 THEN [proposed EXCEPT !.outputs = Append(@, Some(r[2]))]
                 ELSE [proposed EXCEPT !.hallucination_count = @ + 1,
                                       !.outputs = Append(@, None)]

\* SignalGenerator::generate_signal on the next input of the feed: the run
\* after the call.  now_p is the clock the proposer reads, now_v the clock
\* the verifier reads.
generate_signal(run, in, now_p, now_v) ==
    LET counted == [run EXCEPT !.pos = @ + 1, !.total_proposals = @ + 1]
        signal == propose_trade(in.symbol, in.book, in.portfolio, now_p)
        proposed == [counted EXCEPT !.proposal = signal]
    IN  IF signal = None
        THEN [proposed EXCEPT !.outputs = Append(@, None)]
        ELSE LET r == Verifier_verify_signal(signal[2], in.portfolio,
                                             in.solver, now_v)
             IN  IF r = Panic THEN [proposed EXCEPT !.unwound = TRUE]
                 ELSE IF r[1] = "Ok"
                 THEN [proposed EXCEPT !.outputs = Append(@, Some(r[2]))]
                 ELSE [proposed EXCEPT !.hallucination_count = @ + 1,
                                       !.outputs = Append(@, None)]

MaxFeed == 2
Runs == {1, 2}
PipelineBooks ==
    {BookOf(<<Level(Dec(100), Dec(1))>>, <<Level(Dec(101), Dec(1))>>),
     BookOf(<<Level(Dec(100), Dec(3)), Level(Dec(99), Dec(1))>>,
            <<Level(Dec(101), Dec(1))>>),
     BookOf(<<>>, <<Level(Dec(101), Dec(1))>>),
     BookOf(<<Level(Dec(100), Dec(1))>>, <<Level(Dec(100), Dec(1))>>)}
PipelinePortfolios == {PortfolioOf(e, {}, ZERO, ZERO) : e \in {Dec(2010), ZERO}}
PipelineInputs ==
    [symbol : {BTC, DOGE}, book : PipelineBooks,
     portfolio : PipelinePortfolios, solver : {"Decides"}]
PipelineClock == {1000, 2000}

PipelineInit ==
    /\ pl_feed = <<>>
    /\ pl_runs = [r \in Runs |-> NewRun]

\* The next input arrives: both runs are fed the same sequence.
Feed(in) ==
    /\ Len(pl_feed) < MaxFeed
    /\ pl_feed' = Append(pl_feed, in)
    /\ UNCHANGED <<pl_runs, pl_others>>

GenerateSignal(r, now_p, now_v) ==
    /\ ~pl_runs[r].unwound
    /\ pl_runs[r].pos < Len(pl_feed)
    /\ now_p <= now_v
    /\ pl_runs' = [pl_runs EXCEPT ![r] =
           generate_signal(@, pl_feed[@.pos + 1], now_p, now_v)]
    /\ UNCHANGED <<pl_feed, pl_others>>

PipelineNext ==
    \/ \E in \in PipelineInputs : Feed(in)
    \/ \E r \in Runs, now_p \in PipelineClock, now_v \in PipelineClock :
          GenerateSignal(r, now_p, now_v)

----------------------------------------------------------------------------
(* portfolio.rs: the portfolio manager.  position_map is a function from   *)
(* the symbols that have an entry to their Position; portfolio.positions,  *)
(* a Vec collected from the map in no particular order, is a set.          *)

\* iter().map(..).sum() over positions: the sum of the second components of
\* a set of <<symbol, value>> pairs.
RECURSIVE SumValues(_)
SumValues(pairs) ==
    IF pairs = {} THEN ZERO
    ELSE LET x == CHOOSE y \in pairs : TRUE
         IN  Add(x[2], SumValues(pairs \ {x}))

INITIAL_EQUITY == 10000

PortfolioManager_new(initial_equity) ==
    [portfolio |-> [equity |-> initial_equity, positions |-> {},
                    total_exposure |-> ZERO, net_exposure |-> ZERO,
                    leverage |-> ZERO, energy |-> ZERO],
     position_map |-> <<>>]

recalculate_metrics(self) ==
    LET positions == {self.position_map[s] : s \in
                         {t \in DOMAIN self.position_map :
                             Gt(self.position_map[t].quantity, ZERO)}}
        exposure(ps) ==
            SumValues({<<p.symbol, Mul(p.quantity, p.current_price)>> : p \in ps})
        total_exposure == exposure(positions)
        long_exposure == exposure({p \in positions : p.side = "Buy"})
        short_exposure == exposure({p \in positions : p.side = "Sell"})
        equity == self.portfolio.equity
        leverage == IF Gt(equity, ZERO) THEN Div(total_exposure, equity)
                    ELSE ZERO
        total_unrealized ==
            SumValues({<<p.symbol, p.unrealized_pnl>> : p \in positions})
    IN  [self EXCEPT !.portfolio =
            [@ EXCEPT !.positions = positions,
                      !.total_exposure = total_exposure,
                      !.net_exposure = Sub(long_exposure, short_exposure),
                      !.leverage = leverage,
                      !.equity = Add(equity, total_unrealized)]]

update_position(self, symbol, side, quantity, price) ==
    LET fill_value == Mul(quantity, price)
        modified(p) ==
            IF p.side = side
            THEN LET total_value == Add(Mul(p.quantity, p.entry_price), fill_value)
                     total_quantity == Add(p.quantity, quantity)
                 IN  [p EXCEPT !.entry_price = Div(total_value, total_quantity),
                               !.quantity = total_quantity,
                               !.current_price = price]
            ELSE IF Ge(quantity, p.quantity)
            THEN [p EXCEPT !.quantity = ZERO, !.current_price = price]
            ELSE [p EXCEPT !.quantity = Sub(@, quantity), !.current_price = price]
        entry == IF symbol \in DOMAIN self.position_map
                 THEN modified(self.position_map[symbol])
                 ELSE Pos(symbol, side, quantity, price)
    IN  recalculate_metrics(
            [self EXCEPT !.position_map =
                [s \in DOMAIN self.position_map \cup {symbol} |->
                    IF s = symbol THEN entry ELSE self.position_map[s]]])

\* update_prices: prices is a function from the symbols of the HashMap to
\* their prices; the entries are independent, so their order is immaterial.
update_prices(self, prices) ==
    LET marked(p) ==
            LET price == prices[p.symbol]
            IN  [p EXCEPT !.current_price = price,
                          !.unrealized_pnl =
                              IF p.side = "Buy"
                              THEN Mul(Sub(price, p.entry_price), p.quantity)
                              ELSE Mul(Sub(p.entry_price, price), p.quantity)]
    IN  recalculate_metrics(
            [self EXCEPT !.position_map =
                [s \in DOMAIN self.position_map |->
                    IF s \in DOMAIN prices THEN marked(self.position_map[s])
                    ELSE self.position_map[s]]])

get_position(self, symbol) ==
    IF symbol \in DOMAIN self.position_map
    THEN Some(self.position_map[symbol])
    ELSE None

MaxOps == 4
PortfolioSymbols == {BTC, ETH}
\* The fills: <<symbol, side, quantity, price>>, quantities positive.
Fills ==
    {<<BTC, side, quantity, price>> :
        side \in {"Buy", "Sell"}, quantity \in {Dec(1), Dec(2)},
        price \in {Dec(100), Dec(120)}}
    \cup {<<ETH, side, Dec(1), Dec(100)>> : side \in {"Buy", "Sell"}}
PriceMaps ==
    {(BTC :> Dec(120)), (BTC :> Dec(100)), (BTC :> Dec(120)) @@ (ETH :> Dec(100))}

PortfolioInit ==
    /\ pm_self = PortfolioManager_new(Dec(INITIAL_EQUITY))
    /\ pm_calls = <<>>

\* The calls made so far, oldest first, each with what the manager showed
\* before it.
Called(call) ==
    Append(pm_calls, call @@ [before |-> pm_self.portfolio])

UpdatePosition(symbol, side, quantity, price) ==
    /\ Len(pm_calls) < MaxOps
    /\ pm_self' = update_position(pm_self, symbol, side, quantity, price)
    /\ pm_calls' = Called([op |-> "update_position", symbol |-> symbol,
                           side |-> side, quantity |-> quantity,
                           price |-> price, duplicate |-> FALSE])
    /\ UNCHANGED pm_others

\* The exchange delivers the fill of call i a second time (the same exchange
\* order id): update_position takes no fill id, so the handler is called
\* with the same arguments again.
Redeliver(i) ==
    /\ Len(pm_calls) < MaxOps
    /\ i <= Len(pm_calls)
    /\ pm_calls[i].op = "update_position"
    /\ pm_self' = update_position(pm_self, pm_calls[i].symbol, pm_calls[i].side,
                                  pm_calls[i].quantity, pm_calls[i].price)
    /\ pm_calls' = Called([op |-> "update_position",
                           symbol |-> pm_calls[i].symbol,
                           side |-> pm_calls[i].side,
                           quantity |-> pm_calls[i].quantity,
                           price |-> pm_calls[i].price, duplicate |-> TRUE])
    /\ UNCHANGED pm_others

UpdatePrices(prices) ==
    /\ Len(pm_calls) < MaxOps
    /\ pm_self' = update_prices(pm_self, prices)
    /\ pm_calls' = Called([op |-> "update_prices", prices |-> prices])
    /\ UNCHANGED pm_others

PortfolioNext ==
    \/ \E fill \in Fills : UpdatePosition(fill[1], fill[2], fill[3], fill[4])
    \/ \E prices \in PriceMaps : UpdatePrices(prices)
    \/ \E i \in 1..MaxOps : Redeliver(i)

----------------------------------------------------------------------------
(* orderbook.rs: the order book builder.  A serde_json::Value is           *)
(* <<"Null">>, <<"Number", d>>, <<"String", d>> for a text that parses to  *)
(* the decimal d, <<"String", "text">> for one that does not parse,        *)
(* <<"Array", values>> or <<"Object", fields>>, fields a function from the *)
(* keys present to their values.                                          *)

JNull == <<"Null">>
JNumber(d) == <<"Number", d>>
JString(d) == <<"String", d>>
JArray(values) == <<"Array", values>>
JObject(fields) == <<"Object", fields>>

\* normalize_price, and normalize_quantity, which calls it: the numbers and
\* the texts of the model convert exactly.
normalize_price(value) ==
    IF value[1] = "String"
    THEN IF value[2] = "text" THEN Err(<<"ParseError">>) ELSE <<"Ok", value[2]>>
    ELSE IF value[1] = "Number" THEN <<"Ok", value[2]>>
    ELSE Err(<<"InvalidType">>)

normalize_quantity(value) == normalize_price(value)

\* Value::get on an index of an array or on a key of an object.
JGet(value, key) ==
    IF value[1] = "Array" /\ key \in 1..Len(value[2]) THEN <<"Some", value[2][key]>>
    ELSE IF value[1] = "Object" /\ key \in DOMAIN value[2]
    THEN <<"Some", value[2][key]>>
    ELSE <<"None">>

\* The loop of parse_levels over the array, result the levels pushed so far.
RECURSIVE ParseFrom(_, _)
ParseFrom(array, result) ==
    IF array = <<>> THEN <<"Ok", result>>
    ELSE LET level == Head(array)
             p == JGet(level, 1)
             q == JGet(level, 2)
         IN  IF p = <<"None">> THEN Err(<<"InvalidFormat">>)
             ELSE IF normalize_price(p[2])[1] # "Ok" THEN normalize_price(p[2])
             ELSE IF q = <<"None">> THEN Err(<<"InvalidFormat">>)
             ELSE IF normalize_quantity(q[2])[1] # "Ok"
             THEN normalize_quantity(q[2])
             ELSE IF Gt(normalize_quantity(q[2])[2], ZERO)
             THEN ParseFrom(Tail(array),
                      Append(result, Level(normalize_price(p[2])[2],
                                           normalize_quantity(q[2])[2])))
             ELSE ParseFrom(Tail(array), result)

parse_levels(levels) ==
    IF levels[1] # "Array" THEN Err(<<"InvalidFormat">>)
    ELSE ParseFrom(levels[2], <<>>)

\* sort_by on the price, a stable sort: each level goes in behind the levels
\* that do not come after it.
RECURSIVE InsertLevel(_, _, _)
InsertLevel(x, sorted, descending) ==
    IF sorted = <<>> THEN <<x>>
    ELSE IF \/ descending /\ Lt(Head(sorted).price, x.price)
            \/ ~descending /\ Gt(Head(sorted).price, x.price)
    THEN <<x>> \o sorted
    ELSE <<Head(sorted)>> \o InsertLevel(x, Tail(sorted), descending)

RECURSIVE SortFrom(_, _, _)
SortFrom(levels, sorted, descending) ==
    IF levels = <<>> THEN sorted
    ELSE SortFrom(Tail(levels), InsertLevel(Head(levels), sorted, descending),
                  descending)

sort_by_price(levels, descending) == SortFrom(levels, <<>>, descending)

\* from_snapshot on a builder whose counter is sequence: the result, and the
\* counter after the call.
from_snapshot(sequence, snapshot, now) ==
    LET b == JGet(snapshot, "bids")
        a == JGet(snapshot, "asks")
        failed(e) == [result |-> e, sequence |-> sequence]
    IN  IF b = <<"None">> THEN failed(Err(<<"InvalidFormat">>))
        ELSE IF parse_levels(b[2])[1] # "Ok" THEN failed(parse_levels(b[2]))
        ELSE IF a = <<"None">> THEN failed(Err(<<"InvalidFormat">>))
        ELSE IF parse_levels(a[2])[1] # "Ok" THEN failed(parse_levels(a[2]))
        ELSE [result |-> <<"Ok",
                 [bids |-> sort_by_price(parse_levels(b[2])[2], TRUE),
                  asks |-> sort_by_price(parse_levels(a[2])[2], FALSE),
                  timestamp |-> now,
                  sequence |-> sequence + 1]>>,
              sequence |-> sequence + 1]

\* apply_update: the update is not read.
apply_update(sequence, book, update, now) ==
    [result |-> Ok,
     book |-> [book EXCEPT !.sequence = sequence + 1, !.timestamp = now],
     sequence |-> sequence + 1]

MaxSequence == 6
JLevel(p, q) == JArray(<<p, q>>)
Snapshots ==
    {JObject([k \in {"bids", "asks"} |->
        IF k = "bids"
        THEN JArray(<<JLevel(JNumber(Dec(100)), JNumber(Dec(1))),
                      JLevel(JString(Dec(101)), JNumber(Dec(2)))>>)
        ELSE JArray(<<JLevel(JNumber(Dec(102)), JNumber(Dec(1)))>>)]),
     JObject([k \in {"bids", "asks"} |->
        IF k = "bids"
        THEN JArray(<<JLevel(JNumber(Dec(103)), JNumber(Dec(1))),
                      JLevel(JNumber(Dec(99)), JNumber(ZERO))>>)
        ELSE JArray(<<JLevel(JNumber(Dec(102)), JNumber(Dec(1))),
                      JLevel(JNumber(Dec(102)), JNumber(Dec(3)))>>)]),
     JObject([k \in {"asks"} |-> JArray(<<>>)]),
     JObject([k \in {"bids", "asks"} |->
        IF k = "bids" THEN JNull
        ELSE JArray(<<JLevel(JNumber(Dec(102)), JNumber(Dec(1)))>>)]),
     JObject([k \in {"bids", "asks"} |->
        IF k = "bids" THEN JArray(<<>>)
        ELSE JArray(<<JLevel(<<"String", "text">>, JNumber(Dec(1)))>>)])}
BookUpdates == {JObject([k \in {"sequence"} |-> JNumber(Dec(n))]) :
                   n \in 1..MaxSequence}
BookClock == {1000, 2000}

\* OrderBookBuilder::new; the caller holds no book yet.
BookInit ==
    /\ bk_sequence = 0
    /\ bk_book = <<>>
    /\ bk_last = [op |-> "new"]

FromSnapshot(snapshot, now) ==
    /\ bk_sequence < MaxSequence
    /\ LET r == from_snapshot(bk_sequence, snapshot, now)
       IN  /\ bk_sequence' = r.sequence
           /\ bk_book' = IF r.result[1] = "Ok" THEN <<r.result[2]>> ELSE bk_book
           /\ bk_last' = [op |-> "from_snapshot", result |-> r.result,
                          prior |-> bk_sequence, snapshot |-> snapshot]
    /\ UNCHANGED bk_others

\* apply_update on the book the caller holds.
ApplyUpdate(update, now) ==
    /\ bk_sequence < MaxSequence
    /\ bk_book # <<>>
    /\ LET r == apply_update(bk_sequence, bk_book[1], update, now)
       IN  /\ bk_sequence' = r.sequence
           /\ bk_book' = <<r.book>>
           /\ bk_last' = [op |-> "apply_update", result |-> r.result,
                          prior |-> bk_book[1].sequence,
                          update |-> update]
    /\ UNCHANGED bk_others

BookNext ==
    \/ \E snapshot \in Snapshots, now \in BookClock : FromSnapshot(snapshot, now)
    \/ \E update \in BookUpdates, now \in BookClock : ApplyUpdate(update, now)

----------------------------------------------------------------------------
(* The specifications: one per component, the other components left as     *)
(* constructed, and their interleaving.                                    *)

BreakerSpecInit ==
    /\ BreakerInit /\ VerifierIdle /\ AttestIdle
    /\ PipelineInit /\ PortfolioInit /\ BookInit
SpecBreaker == BreakerSpecInit /\ [][BreakerNext]_vars

VerifierSpecInit ==
    /\ VerifierInit /\ BreakerInit /\ AttestIdle
    /\ PipelineInit /\ PortfolioInit /\ BookInit
SpecVerifier == VerifierSpecInit /\ [][VerifierNext]_vars

AttestSpecInit ==
    /\ AttestInit /\ BreakerInit /\ VerifierIdle
    /\ PipelineInit /\ PortfolioInit /\ BookInit
SpecAttest == AttestSpecInit /\ [][AttestNext]_vars

PipelineSpecInit ==
    /\ PipelineInit /\ BreakerInit /\ VerifierIdle
    /\ AttestIdle /\ PortfolioInit /\ BookInit
SpecPipeline == PipelineSpecInit /\ [][PipelineNext]_vars

PortfolioSpecInit ==
    /\ PortfolioInit /\ BreakerInit /\ VerifierIdle
    /\ AttestIdle /\ PipelineInit /\ BookInit
SpecPortfolio == PortfolioSpecInit /\ [][PortfolioNext]_vars

BookSpecInit ==
    /\ BookInit /\ BreakerInit /\ VerifierIdle
    /\ AttestIdle /\ PipelineInit /\ PortfolioInit
SpecBook == BookSpecInit /\ [][BookNext]_vars

Init ==
    /\ BreakerInit /\ VerifierInit /\ AttestInit
    /\ PipelineInit /\ PortfolioInit /\ BookInit
Next ==
    \/ BreakerNext \/ VerifierNext \/ AttestNext
    \/ PipelineNext \/ PortfolioNext \/ BookNext
Spec == Init /\ [][Next]_vars

----------------------------------------------------------------------------
(* The claims.                                                             *)

\* C1: once check has returned Tripped, every later check returns Tripped
\* until reset() is called: a check on a Tripped breaker returns Tripped.
C1_TrippedLatches ==
    [][(cb_state = "Tripped" /\ cb_last'[1] = "check" /\ cb_last' # cb_last
            /\ cb_last'[2] # "Panic")
          => cb_last'[2] = "Tripped"]_cb_vars

\* C2: while the breaker is Tripped, execute_order never returns Submitted.
C2_TrippedBlocksOrders ==
    [][(cb_state = "Tripped" /\ cb_last'[1] = "execute_order")
          => cb_last'[2] # <<"Submitted">>]_cb_vars

NotCalled == <<"NotCalled">>
SeqToSet(q) == {q[i] : i \in 1..Len(q)}

\* C3: a VerifiedOrder is returned only for a signal and portfolio that the
\* L0 contract accepts, with portfolio.energy <= DELTA_U_MAX_SQ, and its
\* proof is satisfiable with exactly the four axioms.
C3_VerifierSound ==
    vf_ret[1] = "Ok" =>
        /\ L0_verify_signal(vf_in.signal, vf_in.portfolio) = Ok
        /\ ~GtDELTA_U_MAX_SQ(vf_in.portfolio.energy)
        /\ vf_ret[2].proof.satisfiable = TRUE
        /\ Len(vf_ret[2].proof.axioms_satisfied) = 4
        /\ SeqToSet(vf_ret[2].proof.axioms_satisfied) =
              {"PositionSizeLimit", "LeverageLimit", "RiskBudget",
               "EnergyConstraint"}

\* A verified order: quantity 0.001 at 50000 on an equity of 10000.
C3_Witness ==
    /\ vf_ret[1] = "Ok"
    /\ vf_in.signal.quantity = <<1, 1000>>
    /\ vf_in.portfolio.equity = Dec(10000)

\* C4: where the L0 contract returns a violation the verifier returns that
\* violation, and where the solver answers Unknown (it is reached: L0, the
\* energy and the entropy checks pass) the verifier returns ExcessiveEntropy.
C4_FailClosed ==
    vf_ret # NotCalled =>
        LET l0 == L0_verify_signal(vf_in.signal, vf_in.portfolio)
        IN  /\ l0[1] = "Err" => vf_ret = l0
            /\ (/\ l0 = Ok
                /\ ~GtDELTA_U_MAX_SQ(vf_in.portfolio.energy)
                /\ vf_in.solver = "Unknown")
                  => vf_ret = Err(<<"ExcessiveEntropy">>)

\* The solver gave up on a signal that passes every check before it.
C4_Witness ==
    /\ vf_in.solver = "Unknown"
    /\ vf_l0 = Ok
    /\ ~GtDELTA_U_MAX_SQ(vf_in.portfolio.energy)
    /\ vf_ret = Err(<<"ExcessiveEntropy">>)

\* The axioms of the contract, as predicates: whether (signal, portfolio)
\* fails the axiom.  "A4z" is the division by a zero equity.
MaxPositionSize(symbol) ==
    CASE symbol = BTC -> Dec(MAX_POSITION_SIZE_BTC)
      [] symbol = ETH -> Dec(MAX_POSITION_SIZE_ETH)
      [] symbol = SOL -> Dec(MAX_POSITION_SIZE_SOL)

Fails(axiom, signal, portfolio) ==
    CASE axiom = "A1" -> Lt(signal.contradiction_score, ZERO)
      [] axiom = "A2" -> /\ signal.symbol \in SUPPORTED_PAIRS
                         /\ Gt(signal.quantity, MaxPositionSize(signal.symbol))
      [] axiom = "A3" -> Gt(portfolio.leverage, Dec(MAX_LEVERAGE))
      [] axiom = "A4z" -> portfolio.equity = ZERO
      [] axiom = "A4a" -> /\ portfolio.equity # ZERO
                          /\ Lt(Div(position_value(signal), portfolio.equity),
                                MIN_RISK_BUDGET)
      [] axiom = "A4b" -> /\ portfolio.equity # ZERO
                          /\ Gt(Div(position_value(signal), portfolio.equity),
                                MAX_RISK_BUDGET)
      [] axiom = "A5" -> GtDELTA_U_MAX_SQ(signal.entropy_count)
      [] axiom = "A6" -> /\ signal.limit_price # NoPrice
                         /\ Le(signal.limit_price[2], ZERO)
      [] axiom = "A7" -> GtDELTA_U_MAX_SQ(portfolio.energy)
      [] axiom = "A8" -> signal.symbol \notin SUPPORTED_PAIRS

ViolationName(axiom) ==
    CASE axiom = "A1" -> "NegativeContradiction"
      [] axiom = "A2" -> "PositionSizeExceeded"
      [] axiom = "A3" -> "LeverageExceeded"
      [] axiom = "A4z" -> "Panic"
      [] axiom = "A4a" -> "RiskBudgetTooSmall"
      [] axiom = "A4b" -> "RiskBudgetExceeded"
      [] axiom = "A5" -> "ExcessiveEntropy"
      [] axiom = "A6" -> "InvalidPrice"
      [] axiom = "A7" -> "EnergyDivergence"
      [] axiom = "A8" -> "UnsupportedSymbol"

\* The violation of the first axiom of `order` that fails, "Ok" if none does.
RECURSIVE FirstFailed(_, _, _)
FirstFailed(order, signal, portfolio) ==
    IF order = <<>> THEN "Ok"
    ELSE IF Fails(Head(order), signal, portfolio) THEN ViolationName(Head(order))
    ELSE FirstFailed(Tail(order), signal, portfolio)

ResultName(r) == IF r[1] = "Err" THEN r[2][1] ELSE r[1]

SPEC_ORDER == <<"A1", "A2", "A3", "A4a", "A4b", "A5", "A6", "A7", "A8">>
CODE_ORDER == <<"A1", "A8", "A2", "A3", "A4z", "A4a", "A4b", "A5", "A6">>

FailedAxioms(signal, portfolio) ==
    {a \in SeqToSet(SPEC_ORDER) : Fails(a, signal, portfolio)}

C6_TamperDetected ==
    (/\ at_ret # NotCalled
     /\ \/ at_presented[1].signal # at_order.signal
        \/ at_presented[1].proof # at_order.proof
        \/ at_presented[1].verified_at # at_order.verified_at)
    => at_ret = Err(<<"VerificationFailed">>)

\* C7: two runs of generate_signal on the same feed, whatever their wall
\* clocks read, return the same output for every input both have taken.
C7_Deterministic ==
    \A i \in 1..Len(pl_feed) :
        (i <= Len(pl_runs[1].outputs) /\ i <= Len(pl_runs[2].outputs))
        => pl_runs[1].outputs[i] = pl_runs[2].outputs[i]

\* Both runs have taken two inputs and returned for them, and on the last
\* one their proposers read different clocks.
C7_Witness ==
    /\ Len(pl_runs[1].outputs) = 2
    /\ Len(pl_runs[2].outputs) = 2
    /\ pl_runs[1].proposal # None
    /\ pl_runs[2].proposal # None
    /\ pl_runs[1].proposal[2].timestamp # pl_runs[2].proposal[2].timestamp
    /\ pl_runs[1].hallucination_count > 0

\* C8: after update_position or update_prices, portfolio().leverage is
\* total_exposure / equity when the equity, as it stands after the call, is
\* positive, and 0 otherwise.
C8_LeverageConsistent ==
    pm_calls # <<>> =>
        pm_self.portfolio.leverage =
            IF Gt(pm_self.portfolio.equity, ZERO)
            THEN Div(pm_self.portfolio.total_exposure, pm_self.portfolio.equity)
            ELSE ZERO

\* C9: two fills on the same side of a symbol the manager showed no position
\* on leave one position on that side, of quantity q1 + q2 and entry price
\* (q1*p1 + q2*p2) / (q1 + q2).
C9_VwapLaw ==
    \A n \in 2..Len(pm_calls) :
        (/\ n = Len(pm_calls)
         /\ pm_calls[n - 1].op = "update_position"
         /\ pm_calls[n].op = "update_position"
         /\ pm_calls[n - 1].symbol = pm_calls[n].symbol
         /\ pm_calls[n - 1].side = pm_calls[n].side
         /\ ~pm_calls[n - 1].duplicate
         /\ ~pm_calls[n].duplicate
         /\ \A p \in pm_calls[n - 1].before.positions :
                p.symbol # pm_calls[n].symbol)
        => LET c1 == pm_calls[n - 1]
               c2 == pm_calls[n]
               q == Add(c1.quantity, c2.quantity)
               vwap == Div(Add(Mul(c1.quantity, c1.price),
                               Mul(c2.quantity, c2.price)), q)
           IN  \E p \in pm_self.portfolio.positions :
                  /\ p.symbol = c2.symbol
                  /\ p.side = c2.side
                  /\ p.quantity = q
                  /\ p.entry_price = vwap
                  /\ get_position(pm_self, c2.symbol) = Some(p)

\* C10: every position that portfolio().positions or get_position shows
\* has a quantity above zero.
C10_ClosedRemoved ==
    /\ \A p \in pm_self.portfolio.positions : Gt(p.quantity, ZERO)
    /\ \A s \in PortfolioSymbols :
          get_position(pm_self, s) # None
          => Gt(get_position(pm_self, s)[2].quantity, ZERO)

\* The realized PnL the manager shows for a symbol.
RealizedPnl(self, symbol) ==
    IF symbol \in DOMAIN self.position_map
    THEN self.position_map[symbol].realized_pnl
    ELSE ZERO

\* C11: a fill on the opposite side of an open position realizes
\* (fill price - entry price) * closed quantity for a Buy position, and
\* (entry price - fill price) * closed quantity for a Sell position.
C11_RealizedOnClose ==
    \A n \in 1..Len(pm_calls) :
        (/\ n = Len(pm_calls)
         /\ pm_calls[n].op = "update_position"
         /\ ~pm_calls[n].duplicate)
        => \A p \in pm_calls[n].before.positions :
              (p.symbol = pm_calls[n].symbol /\ p.side # pm_calls[n].side)
              => LET c == pm_calls[n]
                     closed == IF Lt(c.quantity, p.quantity) THEN c.quantity
                               ELSE p.quantity
                     pnl == IF p.side = "Buy"
                            THEN Mul(Sub(c.price, p.entry_price), closed)
                            ELSE Mul(Sub(p.entry_price, c.price), closed)
                 IN  RealizedPnl(pm_self, c.symbol) = Add(p.realized_pnl, pnl)

\* C12: a fill delivered a second time leaves the portfolio as it was
\* before the second delivery.
C12_DuplicateIgnored ==
    \A n \in 1..Len(pm_calls) :
        (/\ n = Len(pm_calls)
         /\ pm_calls[n].op = "update_position"
         /\ pm_calls[n].duplicate)
        => pm_self.portfolio = pm_calls[n].before

\* C13: the books of one builder carry strictly increasing sequence
\* numbers, a failed from_snapshot consumes none, and an update whose
\* sequence is not above the book's is rejected.
C13_MonotoneSequence ==
    /\ (bk_last.op \in {"from_snapshot", "apply_update"}
         /\ bk_last.result[1] = "Ok")
        => bk_book[1].sequence > bk_last.prior
    /\ (bk_last.op = "from_snapshot" /\ bk_last.result[1] # "Ok")
        => bk_sequence = bk_last.prior
    /\ (bk_last.op = "apply_update"
         /\ Le(JGet(bk_last.update, "sequence")[2][2], Dec(bk_last.prior)))
        => bk_last.result[1] = "Err"

\* C14: an order reaches Submitted only if its attestation was verified.
C14_GateVerifiesAttestation ==
    at_exec = <<"Submitted">> => at_ret = Ok

MaxOrderSize(symbol) ==
    CASE symbol = BTC -> Dec(MAX_ORDER_SIZE_BTC)
      [] symbol = ETH -> Dec(MAX_ORDER_SIZE_ETH)
      [] symbol = SOL -> Dec(MAX_ORDER_SIZE_SOL)

\* C15: execute_order submits exactly the orders on a supported symbol with
\* 0 < quantity <= the symbol's maximum order size and a limit price that
\* is absent or positive; it answers every other order with a SafetyCheck
\* error, each error only for an order with the defect it names.
C15_GateChecks ==
    cb_last[1] = "execute_order" =>
        LET r == cb_last[2]
            sig == cb_last[3].signal
            supported == sig.symbol \in {BTC, ETH, SOL}
            tooLarge == supported /\ Gt(sig.quantity, MaxOrderSize(sig.symbol))
            notPositive == Le(sig.quantity, ZERO)
            badPrice == sig.limit_price # NoPrice /\ Le(sig.limit_price[2], ZERO)
        IN  /\ r \in {<<"Submitted">>, <<"SafetyCheck", "UnsupportedSymbol">>,
                      <<"SafetyCheck", "OrderSizeExceeded">>,
                      <<"SafetyCheck", "InvalidQuantity">>,
                      <<"SafetyCheck", "InvalidPrice">>}
            /\ r = <<"Submitted">>
                <=> (supported /\ ~tooLarge /\ ~notPositive /\ ~badPrice)
            /\ r = <<"SafetyCheck", "UnsupportedSymbol">> => ~supported
            /\ r = <<"SafetyCheck", "OrderSizeExceeded">> => tooLarge
            /\ r = <<"SafetyCheck", "InvalidQuantity">> => notPositive
            /\ r = <<"SafetyCheck", "InvalidPrice">> => badPrice

\* An order with a limit price that is not positive, and nothing else wrong
\* with it, was refused with InvalidPrice.
C15_Witness ==
    /\ cb_last[1] = "execute_order"
    /\ cb_last[2] = <<"SafetyCheck", "InvalidPrice">>
    /\ cb_last[3].signal.symbol = ETH
    /\ cb_last[3].signal.quantity = Dec(2)

\* C16 as claimed: on a portfolio with leverage above MAX_LEVERAGE the
\* verifier answers every signal with LeverageExceeded.
C16_LeverageDominates ==
    (vf_ret # NotCalled /\ Fails("A3", vf_in.signal, vf_in.portfolio))
    => ResultName(vf_ret) = "LeverageExceeded"

\* C16 as amended: on such a portfolio the verifier answers, whatever the
\* solver would say, with NegativeContradiction, UnsupportedSymbol or
\* PositionSizeExceeded for a signal that fails one of these checks, the
\* first that fails in this order, and with LeverageExceeded for every
\* other signal.
C16_LeverageAfterSize ==
    (vf_ret # NotCalled /\ Fails("A3", vf_in.signal, vf_in.portfolio))
    => IF FirstFailed(<<"A1", "A8", "A2">>, vf_in.signal, vf_in.portfolio) = "Ok"
       THEN vf_ret = Err(<<"LeverageExceeded", vf_in.portfolio.leverage,
                           Dec(MAX_LEVERAGE)>>)
       ELSE ResultName(vf_ret) =
                FirstFailed(<<"A1", "A8", "A2">>, vf_in.signal, vf_in.portfolio)

\* A signal within the position size limit on a portfolio of leverage 3.5,
\* with a solver that would have answered Unknown.
C16_Witness ==
    /\ vf_in.portfolio.leverage = <<7, 2>>
    /\ vf_in.solver = "Unknown"
    /\ vf_in.signal.symbol = BTC
    /\ vf_in.signal.quantity = <<1, 10>>
    /\ ~Lt(vf_in.signal.contradiction_score, ZERO)
    /\ ResultName(vf_ret) = "LeverageExceeded"

\* What A4 asks of L0's answer on a positive equity: RiskBudgetTooSmall
\* below 0.0025, RiskBudgetExceeded above 0.01, neither in between.
RiskBudgetAnswer(r, signal, portfolio) ==
    LET price == IF signal.limit_price = NoPrice THEN ZERO
                 ELSE signal.limit_price[2]
        ratio == Div(Mul(signal.quantity, price), portfolio.equity)
    IN  IF Lt(ratio, MIN_RISK_BUDGET)
        THEN r = Err(<<"RiskBudgetTooSmall", ratio, MIN_RISK_BUDGET>>)
        ELSE IF Gt(ratio, MAX_RISK_BUDGET)
        THEN r = Err(<<"RiskBudgetExceeded", ratio, MAX_RISK_BUDGET>>)
        ELSE ResultName(r) \notin {"RiskBudgetTooSmall", "RiskBudgetExceeded"}

DrawdownDefined(history) == history = <<>> \/ history[1][2] # ZERO

TripCondition(history, portfolio) ==
    \/ Gt(portfolio.leverage, Dec(MAX_LEVERAGE))
    \/ /\ history # <<>>
       /\ history[1][2] # ZERO
       /\ Gt(Abs(Div(Sub(portfolio.equity, history[1][2]), history[1][2])),
             MAX_DAILY_DRAWDOWN)

\* C18: a check on a breaker in state Normal returns Tripped if and only if
\* a trip condition holds (the history is the one the check read: every call
\* that changes it also replaces cb_last).
C18_TripConditions ==
    (cb_last[1] = "check" /\ cb_last[4] = "Normal")
    => (cb_last[2] = "Tripped" <=> TripCondition(cb_history, cb_last[3]))

EquityAfter(n) ==
    IF n = Len(pm_calls) THEN pm_self.portfolio.equity
    ELSE pm_calls[n + 1].before.equity

\* C20: after any sequence of operations the equity is the initial equity
\* plus the current total unrealized PnL, and an update_prices that repeats
\* the price map of the call before it leaves the equity unchanged.
C20_EquityDelta ==
    /\ pm_self.portfolio.equity =
          Add(Dec(INITIAL_EQUITY),
              SumValues({<<p.symbol, p.unrealized_pnl>> :
                            p \in pm_self.portfolio.positions}))
    /\ \A n \in 2..Len(pm_calls) :
          (/\ pm_calls[n - 1].op = "update_prices"
           /\ pm_calls[n].op = "update_prices"
           /\ pm_calls[n].prices = pm_calls[n - 1].prices)
          => EquityAfter(n) = EquityAfter(n - 1)

\* C21: after every update_position or update_prices call the portfolio's
\* energy field is the Hamiltonian energy of the portfolio, the number the
\* breaker computes.
C21_EnergyRecomputed ==
    Len(pm_calls) > 0 =>
        pm_self.portfolio.energy = calculate_hamiltonian_energy(pm_self.portfolio)

\* C22: with a solver that decides, every signal that passes all L0 checks
\* and the energy check is accepted by Verifier::verify_signal, and a
\* LeverageExceeded answer is given only to a leverage above MAX_LEVERAGE.
C22_PerSymbolBound ==
    (vf_ret # NotCalled /\ vf_in.solver = "Decides") =>
        /\ (/\ L0_verify_signal(vf_in.signal, vf_in.portfolio) = Ok
            /\ verify_hamiltonian_energy(vf_in.portfolio) = Ok)
           => vf_ret[1] = "Ok"
        /\ ResultName(vf_ret) = "LeverageExceeded"
           => Gt(vf_in.portfolio.leverage, Dec(MAX_LEVERAGE))

\* C23: L0InvariantContract::verify_signal, also on a portfolio of equity 0,
\* and CircuitBreaker::check, also when the oldest snapshot has equity 0,
\* return a value: neither panics.
C23_NoPanic ==
    /\ vf_l0 # Panic
    /\ ~Panicked

\* C24: a book that from_snapshot returns has no level of quantity <= 0, its
\* bids strictly descending and its asks strictly ascending by price, and
\* its best bid below its best ask (a crossed book is not returned).
C24_BookWellFormed ==
    (bk_last.op = "from_snapshot" /\ bk_last.result[1] = "Ok") =>
        LET bids == bk_last.result[2].bids
            asks == bk_last.result[2].asks
        IN  /\ \A i \in 1..Len(bids) : Gt(bids[i].quantity, ZERO)
            /\ \A i \in 1..Len(asks) : Gt(asks[i].quantity, ZERO)
            /\ \A i \in 2..Len(bids) : Gt(bids[i - 1].price, bids[i].price)
            /\ \A i \in 2..Len(asks) : Lt(asks[i - 1].price, asks[i].price)
            /\ (bids # <<>> /\ asks # <<>>) => Lt(bids[1].price, asks[1].price)

\* C25: whenever propose_trade returns a signal, its side is Buy if the depth
\* imbalance of the book it was given is >= 0 and Sell if it is < 0.
C25_SideRule ==
    \A r \in Runs :
        (pl_runs[r].pos > 0 /\ pl_runs[r].proposal # None) =>
            pl_runs[r].proposal[2].side =
                IF Ge(calculate_depth_imbalance(pl_feed[pl_runs[r].pos].book),
                      ZERO)
                THEN "Buy" ELSE "Sell"

\* The inputs of the feed, among the first n, on which the proposer emits a
\* signal that the verifier answers with an error (the clocks the two read
\* decide neither).
RejectedInputs(n) ==
    {i \in 1..n :
        LET in == pl_feed[i]
            signal == propose_trade(in.symbol, in.book, in.portfolio, 0)
        IN  /\ signal # None
            /\ Verifier_verify_signal(signal[2], in.portfolio,
                                      in.solver, 0)[1] = "Err"}

OpenSymbols(portfolio) == {p.symbol : p \in portfolio.positions}

\* C27: when the last call is an update_position(symbol, side, q, p) on a
\* symbol whose position was open before some earlier call and is closed
\* before this one, the portfolio shows a fresh position of that side, of
\* quantity q and entry price p, with zero PnL.
C27_ReopenAfterClose ==
    LET n == Len(pm_calls)
    IN  (/\ n > 0
         /\ pm_calls[n].op = "update_position"
         /\ pm_calls[n].symbol \notin OpenSymbols(pm_calls[n].before)
         /\ \E m \in 1..n : pm_calls[n].symbol \in OpenSymbols(pm_calls[m].before))
        => Pos(pm_calls[n].symbol, pm_calls[n].side, pm_calls[n].quantity,
               pm_calls[n].price) \in pm_self.portfolio.positions

\* The inputs of the feed, among the first n, on which the proposer emits a
\* signal.
ProposedInputs(n) ==
    {i \in 1..n :
        propose_trade(pl_feed[i].symbol, pl_feed[i].book,
                      pl_feed[i].portfolio, 0) # None}

\* C28: every generate_signal call, whatever the book and the portfolio,
\* returns None, and every proposal emitted is counted as a rejection.
C28_NeverVerified ==
    \A r \in Runs :
        LET run == pl_runs[r]
        IN  /\ Len(run.outputs) = run.pos
            /\ \A i \in 1..Len(run.outputs) : run.outputs[i] = None
            /\ run.hallucination_count = Cardinality(ProposedInputs(run.pos))

\* C29: every signal that L0InvariantContract::verify_signal accepts, on any
\* portfolio, has a quantity > 0 and a limit price that is present and > 0.
C29_AcceptedIsPositive ==
    vf_l0 = Ok =>
        /\ Gt(vf_in.signal.quantity, ZERO)
        /\ vf_in.signal.limit_price # NoPrice
        /\ Gt(vf_in.signal.limit_price[2], ZERO)

====
